---- MODULE Spec2Model ----
(***************************************************************************)
(* Model of the Aeolus pitch-to-MIDI-CC plugin (src/src/lib.rs) and of its *)
(* numeric helpers (src/src/utils.rs).                                     *)
(*                                                                         *)
(* The plugin instance is a state machine driven by the host: initialize,  *)
(* reset and process.  process is modelled at the granularity of its loop: *)
(* one step stores a sample and advances the cursor (lib.rs 174-175), the  *)
(* next one runs the hop check and the analysis (lib.rs 177-201).          *)
(*                                                                         *)
(* Samples are only copied by the code, never inspected, so every input    *)
(* sample is tagged with its position in the stream (1, 2, 3, ...); the    *)
(* fill value 0.0 of Vec::resize is the tag 0.                             *)
(*                                                                         *)
(* f32 values that the code computes with are modelled as IEEE-754 values: *)
(* NaN, +Inf, -Inf, or a finite number held as an integer count of 1/UNIT. *)
(* The inputs are chosen so that every finite intermediate result is a     *)
(* multiple of 1/UNIT, i.e. exact both here and in f32.                    *)
(***************************************************************************)
EXTENDS Integers, Sequences, FiniteSets, TLC

\* ------------------------------------------------------------- constants
BUFFER_SIZE == 128
HOP_SIZE == 64
MIN_PITCH == 57
MAX_PITCH == 81
\* the literal length passed to Vec::resize in initialize
RESIZE_LEN == 128

\* ---------------------------------------------------------------- bounds
\* total number of samples the host delivers over the instance's lifetime
MaxSamples == 195
\* the estimator returns 440 Hz shifted by up to MaxOctave octaves
MaxOctave == 2

\* block lengths the host uses: empty, one short of a hop, a hop, one more
\* than a hop, a fraction of a hop, and a block holding two hops
BlockLens == {0, HOP_SIZE \div 2 - 2, HOP_SIZE - 1, HOP_SIZE, HOP_SIZE + 1, 2 * HOP_SIZE + 2}

\* ------------------------------------------------------------ f32 values
RECURSIVE Pow2(_)
Pow2(n) == IF n = 0 THEN 1 ELSE 2 * Pow2(n - 1)

UNIT == Pow2(MaxOctave + 1)

NaN == [k |-> "nan", n |-> 0]
PosInf == [k |-> "inf", n |-> 1]
NegInf == [k |-> "inf", n |-> -1]
\* the f32 with value m / UNIT
Raw(m) == [k |-> "fin", n |-> m]
\* the f32 with integer value i
F(i) == Raw(i * UNIT)

IsNaN(x) == x.k = "nan"
IsInf(x) == x.k = "inf"
IsFin(x) == x.k = "fin"
Sign(x) == IF x.n > 0 THEN 1 ELSE IF x.n < 0 THEN -1 ELSE 0

FNeg(x) == IF IsNaN(x) THEN NaN ELSE [x EXCEPT !.n = -x.n]

FAdd(a, b) ==
    IF IsNaN(a) \/ IsNaN(b) THEN NaN
    ELSE IF IsInf(a) /\ IsInf(b) THEN (IF a.n = b.n THEN a ELSE NaN)
    ELSE IF IsInf(a) THEN a
    ELSE IF IsInf(b) THEN b
    ELSE Raw(a.n + b.n)

FSub(a, b) == FAdd(a, FNeg(b))

FMul(a, b) ==
    IF IsNaN(a) \/ IsNaN(b) THEN NaN
    ELSE IF IsInf(a) \/ IsInf(b)
         THEN (IF Sign(a) * Sign(b) = 0 THEN NaN
               ELSE IF Sign(a) * Sign(b) > 0 THEN PosInf ELSE NegInf)
    ELSE Raw((a.n * b.n) \div UNIT)

\* division by a finite, non-zero divisor (the only one the code performs)
FDiv(a, b) ==
    IF IsNaN(a) \/ IsNaN(b) THEN NaN
    ELSE IF IsInf(a)
         THEN (IF Sign(a) * Sign(b) > 0 THEN PosInf ELSE NegInf)
    ELSE IF a.n * b.n >= 0 THEN Raw((a.n * UNIT) \div b.n)
    ELSE Raw(-(((-a.n) * UNIT) \div b.n))

\* a <= b on f32: false as soon as one side is NaN
FLe(a, b) ==
    IF IsNaN(a) \/ IsNaN(b) THEN FALSE
    ELSE IF IsInf(a) THEN (a.n < 0 \/ (IsInf(b) /\ b.n > 0))
    ELSE IF IsInf(b) THEN b.n > 0
    ELSE a.n <= b.n

\* f32::max and f32::min: a NaN operand is ignored
FMax(a, b) == IF IsNaN(a) THEN b ELSE IF IsNaN(b) THEN a ELSE IF FLe(a, b) THEN b ELSE a
FMin(a, b) == IF IsNaN(a) THEN b ELSE IF IsNaN(b) THEN a ELSE IF FLe(a, b) THEN a ELSE b

\* log2 of m / UNIT for m a positive power of two
RECURSIVE Log2Raw(_)
Log2Raw(m) ==
    IF m = UNIT THEN 0
    ELSE IF m > UNIT THEN 1 + Log2Raw(m \div 2)
    ELSE Log2Raw(m * 2) - 1

\* f32::log2: NaN below zero, -Inf at zero
FLog2(x) ==
    IF IsNaN(x) THEN NaN
    ELSE IF IsInf(x) THEN (IF x.n > 0 THEN PosInf ELSE NaN)
    ELSE IF x.n < 0 THEN NaN
    ELSE IF x.n = 0 THEN NegInf
    ELSE F(Log2Raw(x.n))

\* ------------------------------------------------------------- utils.rs
freq_to_midi(frequency) ==
    FAdd(F(69), FMul(F(12), FLog2(FDiv(frequency, F(440)))))

scale(input, min_input_value, max_input_value, min_output_value, max_output_value) ==
    LET normalized == FDiv(FSub(input, min_input_value),
                           FSub(max_input_value, min_input_value))
    IN  FAdd(FMul(normalized, max_output_value),
             FMul(FSub(F(1), normalized), min_output_value))

limit_f32_NoLowerBound(input, min_value, max_value) == FMin(max_value, input)

limit_f32(input, min_value, max_value) ==
    FMin(max_value, FMax(min_value, input))

\* ------------------------------------------------------------ the state
VARIABLES
    pending_samples,  \* Aeolus.pending_samples: Vec<f32>, as a sequence of sample tags
    pending_index,    \* Aeolus.pending_index: the accumulator cursor
    pitch_analyzer,   \* Aeolus.pitch_analyzer: "Ok" (a Pitch) or "Err"
    analyzer_fed,     \* internal memory of the Pitch: the number of windows it consumed
    pc,               \* position of the host thread: "idle", "loop", "check", "panic"
    block,            \* the Buffer of the current (or latest) process call
    sample_index,     \* the local sample_index of process
    events,           \* events handed to context.send_event by the current (or latest) call
    estimate,         \* outcome of the analysis of the latest loop iteration
    setup_done,       \* history: initialize has run
    consumed,         \* history: samples stored over the instance's lifetime
    n_since,          \* history: samples stored since the cursor was last set to 0 from outside
    hops_since,       \* history: hops completed since then
    emit_log          \* history: for each event, the sample that completed its hop, the
                      \*          MIDI note of its frequency and the value before the clamp

vars == <<pending_samples, pending_index, pitch_analyzer, analyzer_fed, pc, block,
          sample_index, events, estimate, setup_done, consumed, n_since, hops_since,
          emit_log>>

\* what the external constructor Pitch::new can return
PitchNewResults == {"Ok", "Err"}

\* frequencies Pitch::do_result can return: 440 Hz shifted by whole octaves, and
\* the f32 values outside the estimator's contract (0, negative, NaN, +Inf)
Octaves == {Raw((440 * UNIT * Pow2(MaxOctave + o)) \div Pow2(MaxOctave)) :
              o \in (0 - MaxOctave)..MaxOctave}
Frequencies == Octaves \cup {F(0), F(-440), NaN, PosInf}

NotInvoked == [kind |-> "NotInvoked", freq |-> NaN]
NotFound == [kind |-> "NotFound", freq |-> NaN]
Found(f) == [kind |-> "Found", freq |-> f]
\* what Pitch::do_result can return: Err(_) or Ok(frequency)
DoResults == {NotFound} \cup {Found(f) : f \in Frequencies}

\* Vec::resize(new_len, value)
Resize(vec, new_len, value) ==
    IF new_len <= Len(vec) THEN SubSeq(vec, 1, new_len)
    ELSE vec \o [i \in 1..(new_len - Len(vec)) |-> value]

\* impl Default for Aeolus
Init ==
    /\ pending_samples = <<>>
    /\ pending_index = 0
    /\ pitch_analyzer = "Err"
    /\ analyzer_fed = 0
    /\ pc = "idle"
    /\ block = <<>>
    /\ sample_index = 0
    /\ events = <<>>
    /\ estimate = NotInvoked
    /\ setup_done = FALSE
    /\ consumed = 0
    /\ n_since = 0
    /\ hops_since = 0
    /\ emit_log = <<>>

\* Plugin::initialize: the one-time setup call
Initialize ==
    /\ pc = "idle"
    /\ ~setup_done
    /\ pending_samples' = Resize(pending_samples, RESIZE_LEN, 0)
    /\ \E r \in PitchNewResults : pitch_analyzer' = r
    /\ analyzer_fed' = 0
    /\ setup_done' = TRUE
    /\ UNCHANGED <<pending_index, pc, block, sample_index, events, estimate, consumed,
                   n_since, hops_since, emit_log>>

ResetClearsBuffer ==
    /\ pc = "idle"
    /\ pending_index' = 0
    /\ pending_samples' = [i \in 1..Len(pending_samples) |-> 0]
    /\ n_since' = 0
    /\ hops_since' = 0
    /\ UNCHANGED <<pitch_analyzer, analyzer_fed, pc, block, sample_index,
                   events, estimate, setup_done, consumed, emit_log>>

ResetRecreatesAnalyzer ==
    /\ pc = "idle"
    /\ pending_index' = 0
    /\ \E r \in PitchNewResults : pitch_analyzer' = r
    /\ analyzer_fed' = 0
    /\ n_since' = 0
    /\ hops_since' = 0
    /\ UNCHANGED <<pending_samples, pc, block, sample_index,
                   events, estimate, setup_done, consumed, emit_log>>

\* Plugin::reset
Reset ==
    /\ pc = "idle"
    /\ pending_index' = 0
    /\ n_since' = 0
    /\ hops_since' = 0
    /\ UNCHANGED <<pending_samples, pitch_analyzer, analyzer_fed, pc, block, sample_index,
                   events, estimate, setup_done, consumed, emit_log>>

ProcessCallResetsCursor(len) ==
    /\ pc = "idle"
    /\ consumed + len <= MaxSamples
    /\ block' = [i \in 1..len |-> consumed + i]
    /\ sample_index' = 0
    /\ pending_index' = 0
    /\ events' = <<>>
    /\ emit_log' = <<>>
    /\ estimate' = NotInvoked
    /\ pc' = "loop"
    /\ UNCHANGED <<pending_samples, pitch_analyzer, analyzer_fed,
                   setup_done, consumed, n_since, hops_since>>

\* Plugin::process is entered with a Buffer of len samples; the host's event
\* queue for the block starts empty
ProcessCall(len) ==
    /\ pc = "idle"
    /\ consumed + len <= MaxSamples
    /\ block' = [i \in 1..len |-> consumed + i]
    /\ sample_index' = 0
    /\ events' = <<>>
    /\ emit_log' = <<>>
    /\ estimate' = NotInvoked
    /\ pc' = "loop"
    /\ UNCHANGED <<pending_samples, pending_index, pitch_analyzer, analyzer_fed,
                   setup_done, consumed, n_since, hops_since>>

\* self.pending_samples[self.pending_index] = sample, on a Vec indexed from 0
WriteSampleIntoTail(vec, index, sample) == [vec EXCEPT ![index + 1 + HOP_SIZE] = sample]

WriteSample(vec, index, sample) == [vec EXCEPT ![index + 1] = sample]

\* the loop takes the next sample of the block, stores it and advances the cursor;
\* an index outside the Vec panics before anything is written
ProcessStore ==
    /\ pc = "loop"
    /\ sample_index < Len(block)
    /\ IF pending_index < Len(pending_samples)
       THEN /\ pending_samples' = WriteSample(pending_samples, pending_index,
                                              block[sample_index + 1])
            /\ pending_index' = pending_index + 1
            /\ consumed' = consumed + 1
            /\ n_since' = n_since + 1
            /\ pc' = "check"
       ELSE /\ pc' = "panic"
            /\ UNCHANGED <<pending_samples, pending_index, consumed, n_since>>
    /\ UNCHANGED <<pitch_analyzer, analyzer_fed, block, sample_index, events, estimate,
                   setup_done, hops_since, emit_log>>

HopReadyOffByOne(index) == index > HOP_SIZE

HopReadyWindow(index) == index >= BUFFER_SIZE + 1

\* if self.pending_index >= HOP_SIZE
HopReady(index) == index >= HOP_SIZE

AnalyzerAvailableAlways(analyzer) == TRUE

\* match &mut self.pitch_analyzer: Ok(analyzer) against Err(_)
AnalyzerAvailable(analyzer) == analyzer = "Ok"

PitchFoundUnlessSkipped(result) == result.kind # "NotInvoked"

\* match analyzer.do_result(..): Ok(frequency) against Err(_)
PitchFound(result) == result.kind = "Found"

\* the value before the clamp
Scaled(frequency) == scale(freq_to_midi(frequency), F(MIN_PITCH), F(MAX_PITCH), F(0), F(127))

MidiCCTimedFromNextSample(timing, frequency) ==
    [timing |-> timing + 1, channel |-> 0, cc |-> 1,
     value |-> limit_f32(Scaled(frequency), F(0), F(127))]

\* NoteEvent::MidiCC { timing, channel: 0, cc: 1, value: limit(scale(..), 0.0, 127.0) }
MidiCC(timing, frequency) ==
    [timing |-> timing, channel |-> 0, cc |-> 1,
     value |-> limit_f32(Scaled(frequency), F(0), F(127))]

\* the rest of the loop body: the hop check, the analysis, the event, the cursor
\* reset and sample_index += 1
ProcessHop ==
    /\ pc = "check"
    /\ LET ready == HopReady(pending_index)
           outcomes == IF ready /\ AnalyzerAvailable(pitch_analyzer)
                       THEN DoResults ELSE {NotInvoked}
       IN  \E result \in outcomes :
             /\ estimate' = result
             /\ analyzer_fed' = IF result.kind = "NotInvoked" THEN analyzer_fed
                                ELSE analyzer_fed + 1
             /\ IF PitchFound(result)
                THEN /\ events' = Append(events, MidiCC(sample_index, result.freq))
                     /\ emit_log' = Append(emit_log, [sample |-> consumed,
                                                      note |-> freq_to_midi(result.freq),
                                                      scaled |-> Scaled(result.freq)])
                ELSE UNCHANGED <<events, emit_log>>
             /\ pending_index' = IF ready THEN 0 ELSE pending_index
             /\ hops_since' = IF ready THEN hops_since + 1 ELSE hops_since
    /\ sample_index' = sample_index + 1
    /\ pc' = "loop"
    /\ UNCHANGED <<pending_samples, pitch_analyzer, block, setup_done, consumed, n_since>>

\* the block is exhausted: ProcessStatus::Normal
ProcessReturn ==
    /\ pc = "loop"
    /\ sample_index = Len(block)
    /\ pc' = "idle"
    /\ UNCHANGED <<pending_samples, pending_index, pitch_analyzer, analyzer_fed, block,
                   sample_index, events, estimate, setup_done, consumed, n_since,
                   hops_since, emit_log>>

Process == \E len \in BlockLens : ProcessCall(len)

Next ==
    \/ Initialize
    \/ Reset
    \/ Process
    \/ ProcessStore
    \/ ProcessHop
    \/ ProcessReturn

Spec == Init /\ [][Next]_vars

TypeOK ==
    /\ pc \in {"idle", "loop", "check", "panic"}
    /\ pitch_analyzer \in PitchNewResults
    /\ pending_index \in 0..(BUFFER_SIZE + 2)
    /\ Len(events) = Len(emit_log)

\* ------------------------------------------------------------ properties

\* the samples stored since the last hop are the latest ones of the stream, in order
PrefixIsLatest ==
    \A j \in 1..pending_index :
        j <= Len(pending_samples) /\ pending_samples[j] = consumed - pending_index + j

\* C1: counting from a cursor at 0, after n stored samples exactly n div HOP_SIZE hops
\* have completed and the cursor is n mod HOP_SIZE, whatever the split of the n samples
\* into process calls; while the n-th sample is stored but its hop check has not run,
\* the same holds of n - 1 with the cursor one further.
C1_HopPeriodicity ==
    /\ pc # "check" =>
          /\ hops_since = n_since \div HOP_SIZE
          /\ pending_index = n_since % HOP_SIZE
    /\ pc = "check" =>
          /\ hops_since = (n_since - 1) \div HOP_SIZE
          /\ pending_index = ((n_since - 1) % HOP_SIZE) + 1

\* two hops completed over several calls, the latest a short one ending inside a hop
C1_Witness ==
    /\ pc = "idle"
    /\ hops_since = 2
    /\ pending_index > 0
    /\ Len(block) > 0
    /\ Len(block) < HOP_SIZE

\* C2: within a process call an event is sent in a step if and only if that step is
\* the hop check of a HOP_SIZE-th sample, the estimator is Ok and its estimate is
\* Found; then exactly one event is appended, and no other step changes the events.
C2_EventIffFoundHop ==
    [][ (pc # "idle") =>
          LET hop == pc = "check" /\ n_since % HOP_SIZE = 0
              emit == hop /\ pitch_analyzer = "Ok" /\ estimate'.kind = "Found"
          IN  IF emit
              THEN /\ Len(events') = Len(events) + 1
                   /\ SubSeq(events', 1, Len(events)) = events
              ELSE events' = events ]_vars

\* a call whose first hop gave an event and whose second hop was NotFound
C2_Witness ==
    /\ pc = "loop"
    /\ estimate.kind = "NotFound"
    /\ Len(events) = 1
    /\ sample_index > HOP_SIZE

\* C3: once initialize has run and construction failed, no event is ever emitted, the
\* estimator is never invoked, process does not fault, and the accumulator keeps
\* storing the samples and wrapping the cursor at every HOP_SIZE-th sample.
C3_SilentDegradation ==
    (setup_done /\ pitch_analyzer = "Err") =>
        /\ events = <<>>
        /\ analyzer_fed = 0
        /\ estimate = NotInvoked
        /\ pc # "panic"
        /\ PrefixIsLatest
        /\ pc # "check" => pending_index = n_since % HOP_SIZE

\* a failed estimator, a reset in the middle of the stream, hops completed since
C3_Witness ==
    /\ setup_done
    /\ pitch_analyzer = "Err"
    /\ consumed > n_since
    /\ hops_since >= 1
    /\ pending_index > 0

InRange(x) == FLe(F(0), x) /\ FLe(x, F(127))

\* C4: every emitted value lies in [0, 127]; it is the scaled value itself when that
\* lies in [0, 127], 0 when the scaled value is below 0 and 127 when it is above 127;
\* for a note outside [MIN_PITCH, MAX_PITCH] it is 0 or 127, and for a finite note it
\* is 0 below MIN_PITCH and 127 above MAX_PITCH.
C4_ValueInRange ==
    \A i \in 1..Len(events) :
        LET v == events[i].value
            s == emit_log[i].scaled
            t == emit_log[i].note
        IN  /\ InRange(v)
            /\ InRange(s) => v = s
            /\ (~IsNaN(s) /\ ~FLe(F(0), s)) => v = F(0)
            /\ (~IsNaN(s) /\ ~FLe(s, F(127))) => v = F(127)
            /\ (~IsNaN(t) /\ ~(FLe(F(MIN_PITCH), t) /\ FLe(t, F(MAX_PITCH))))
                  => v \in {F(0), F(127)}
            /\ (IsFin(t) /\ ~FLe(F(MIN_PITCH), t)) => v = F(0)
            /\ (IsFin(t) /\ ~FLe(t, F(MAX_PITCH))) => v = F(127)

\* one call with a value strictly inside the range and a saturated one
C4_Witness ==
    \E i, j \in 1..Len(events) :
        /\ InRange(emit_log[i].scaled)
        /\ events[i].value \notin {F(0), F(127)}
        /\ IsFin(emit_log[j].scaled)
        /\ ~FLe(emit_log[j].scaled, F(127))
        /\ events[j].value = F(127)

\* C5: the timing of every event is the zero-based index, in the block of the call,
\* of the sample that completed the hop; it is below the block length.
C5_SampleAccurateTiming ==
    \A i \in 1..Len(events) :
        /\ events[i].timing >= 0
        /\ events[i].timing < Len(block)
        /\ block[events[i].timing + 1] = emit_log[i].sample

\* two events in a block that starts in the middle of the stream and of a hop
C5_Witness ==
    /\ Len(events) = 2
    /\ block[1] > 1
    /\ events[1].timing < HOP_SIZE - 1
    /\ events[2].timing = events[1].timing + HOP_SIZE

\* C6: reset sets the cursor to 0 and leaves the estimator status, the estimator's
\* memory and the sample buffer as they were; the first hop after it completes
\* exactly HOP_SIZE samples later.
C6_ResetFrame ==
    /\ [][ Reset =>
             /\ pending_index' = 0
             /\ pending_samples' = pending_samples
             /\ pitch_analyzer' = pitch_analyzer
             /\ analyzer_fed' = analyzer_fed ]_vars
    /\ [](pc # "check" =>
             /\ n_since < HOP_SIZE => hops_since = 0
             /\ n_since = HOP_SIZE => hops_since = 1)

\* a reset with samples pending, and the first hop after it just completed
C6_Witness ==
    /\ pc = "loop"
    /\ (consumed - n_since) % HOP_SIZE # 0
    /\ n_since = HOP_SIZE
    /\ hops_since = 1
    /\ \E j \in 1..Len(pending_samples) : pending_samples[j] # 0

\* C7: the cursor is always within 0..HOP_SIZE; it equals HOP_SIZE exactly when a hop
\* is ready, which is only between the store and the hop check of a sample; everywhere
\* else it is strictly below HOP_SIZE.
C7_CursorInvariant ==
    /\ pending_index >= 0
    /\ pending_index <= HOP_SIZE
    /\ pc # "check" => pending_index < HOP_SIZE
    /\ pc = "check" => (HopReady(pending_index) <=> pending_index = HOP_SIZE)

\* the cursor has reached HOP_SIZE for the second time
C7_Witness ==
    /\ pc = "check"
    /\ pending_index = HOP_SIZE
    /\ n_since = 2 * HOP_SIZE

\* C8: the estimator status is Ok or Err, and no step other than the one-time
\* initialize changes it.
C8_StatusPermanent ==
    /\ [][ ~(~setup_done /\ setup_done') => pitch_analyzer' = pitch_analyzer ]_vars
    /\ [](pitch_analyzer \in {"Ok", "Err"})
    /\ [](~setup_done => pitch_analyzer = "Err")

\* an initialized estimator that has analysed windows before and after a reset
C8_Witness ==
    /\ setup_done
    /\ pitch_analyzer = "Ok"
    /\ analyzer_fed >= 2
    /\ consumed > n_since
    /\ hops_since >= 1

\* C9: after initialize the buffer has BUFFER_SIZE slots; the slots from HOP_SIZE on
\* keep the fill value, and the slots below the cursor hold the latest samples, so a
\* ready window is the latest HOP_SIZE samples followed by the initial tail.
C9_StaleTail ==
    /\ PrefixIsLatest
    /\ setup_done =>
          /\ Len(pending_samples) = BUFFER_SIZE
          /\ \A j \in (HOP_SIZE + 1)..Len(pending_samples) : pending_samples[j] = 0

\* a second window is ready for the estimator
C9_Witness ==
    /\ setup_done
    /\ pc = "check"
    /\ pending_index = HOP_SIZE
    /\ hops_since >= 1
    /\ pending_samples[HOP_SIZE] = consumed
    /\ pending_samples[1] = consumed - HOP_SIZE + 1

\* C10: once initialize has run, process never faults: the index it writes at is below
\* the buffer length; before initialize the buffer is empty and the estimator is Err,
\* and only then can process fault.
C10_NoOutOfBounds ==
    /\ setup_done =>
          /\ pc # "panic"
          /\ pc = "loop" => pending_index < Len(pending_samples)
    /\ ~setup_done => (pending_samples = <<>> /\ pitch_analyzer = "Err")

\* the whole stream has been processed over several calls and resets
C10_Witness ==
    /\ setup_done
    /\ pc = "idle"
    /\ consumed = MaxSamples
    /\ n_since < consumed

\* process on an instance that was never initialized faults at its first sample
C10_FaultWithoutSetup ==
    /\ pc = "panic"
    /\ ~setup_done
    /\ sample_index = 0

====
